---- MODULE Spec2Model ----
(***************************************************************************)
(* The two sync jobs of data-pipeline-python:                              *)
(*   src/src/imds-etl.py   MKISTAT -> imds_mk_istats                       *)
(*   src/src/imds_trds.py  TRD     -> imds_trds                            *)
(* Each job is a straight-line script: fetch the whole source table, build *)
(* one record per fetched row, then, inside one SQLAlchemy session, check  *)
(* each record against the destination by natural key, insert it if it is  *)
(* absent, and commit once.  Everything from engine creation to the commit *)
(* sits in one try/except Exception.                                       *)
(***************************************************************************)
EXTENDS Integers, Sequences, FiniteSets, TLC

VARIABLES
    job,              \* which script runs: "mkistat" or "trds"
    source,           \* the MySQL source table, in SELECT * order
    dest,             \* committed rows of the PostgreSQL destination table
    runs,             \* number of runs started so far
    pc,               \* per process: position in the script
    imds_data,        \* per process: the fetched DataFrame (rows in order)
    insert_records,   \* per process: the list built by the construction loop
    pos,              \* per process: index of the current loop iteration
    session,          \* per process: rows inserted in the open transaction
    existing_record,  \* per process: result of .first() ({} is None)
    inserted_count,   \* per process: the counter of imds-etl.py line 108
    run_id,           \* per process: which run this process is
    log,              \* per process: what the logger wrote in this run
    trace,            \* history: store operations attempted in this run
    destAtStart,      \* history: dest when the run started
    history           \* history: summaries of the completed runs

vars == <<job, source, dest, runs, pc, imds_data, insert_records, pos, session,
          existing_record, inserted_count, run_id, log, trace, destAtStart,
          history>>

locals == <<imds_data, insert_records, pos, session, existing_record,
            inserted_count>>
hist == <<trace, destAtStart, history>>

----------------------------------------------------------------------------
(* Bounds of the model *)

MaxSrc == 3       \* rows in the source table
MaxRuns == 2      \* invocations of the script

Procs == {1, 2}   \* operating-system processes that can run the script
SeqProcs == {1}   \* the scheduler of Spec starts one run at a time

Jobs == {"mkistat", "trds"}

----------------------------------------------------------------------------
(* Column mappings of the record construction loops, as <<dest, source>> *)

MkFieldMapping ==
    << <<"mkstat_instrument_code", "MKISTAT_INSTRUMENT_CODE">>,
       <<"mkstat_instrument_number", "MKISTAT_INSTRUMENT_NUMBER">>,
       <<"mkstat_quote_bases", "MKISTAT_QUOTE_BASES">>,
       <<"mkstat_open_price", "MKISTAT_OPEN_PRICE">>,
       <<"mkstat_pub_last_trade_price", "MKISTAT_PUB_LAST_TRADED_PRICE">>,
       <<"mkstat_spot_last_trade_price", "MKISTAT_SPOT_LAST_TRADED_PRICE">>,
       <<"mkstat_high_price", "MKISTAT_HIGH_PRICE">>,
       <<"mkstat_low_price", "MKISTAT_LOW_PRICE">>,
       <<"mkstat_close_price", "MKISTAT_CLOSE_PRICE">>,
       <<"mkstat_yday_close_price", "MKISTAT_YDAY_CLOSE_PRICE">>,
       <<"mkstat_total_trades", "MKISTAT_TOTAL_TRADES">>,
       <<"mkstat_total_volume", "MKISTAT_TOTAL_VOLUME">>,
       <<"mkstat_total_value", "MKISTAT_TOTAL_VALUE">>,
       <<"mkstat_public_total_trades", "MKISTAT_PUBLIC_TOTAL_TRADES">>,
       <<"mkstat_public_total_volume", "MKISTAT_PUBLIC_TOTAL_VOLUME">>,
       <<"mkstat_public_total_value", "MKISTAT_PUBLIC_TOTAL_VALUE">>,
       <<"mkstat_spot_total_trades", "MKISTAT_SPOT_TOTAL_TRADES">>,
       <<"mkstat_spot_total_volume", "MKISTAT_SPOT_TOTAL_VOLUME">>,
       <<"mkstat_spot_total_value", "MKISTAT_SPOT_TOTAL_VALUE">>,
       <<"mkstat_lm_date_time", "MKISTAT_LM_DATE_TIME">> >>

TrdFieldMapping ==
    << <<"trd_total_trades", "TRD_TOTAL_TRADES">>,
       <<"trd_total_volume", "TRD_TOTAL_VOLUME">>,
       <<"trd_total_value", "TRD_TOTAL_VALUE">>,
       <<"trd_lm_date_time", "TRD_LM_DATE_TIME">> >>

FieldMapping(j) == IF j = "mkistat" THEN MkFieldMapping ELSE TrdFieldMapping

\* the generated identity token's column
IdColumn(j) == IF j = "mkistat" THEN "uuid" ELSE "id"

\* the columns named in filter_by, in the order written
KeyColumns(j) ==
    IF j = "mkistat" THEN <<"mkstat_instrument_code", "mkstat_lm_date_time">>
                     ELSE <<"trd_total_trades", "trd_lm_date_time">>

Range(s) == {s[k] : k \in 1..Len(s)}

DestColumns(j) == {IdColumn(j)} \cup {m[1] : m \in Range(FieldMapping(j))}
MappedColumns(j) == {m[1] : m \in Range(FieldMapping(j))}
SourceColumns(j) == {m[2] : m \in Range(FieldMapping(j))}

\* the source column the construction loop reads for destination column d
SourceOf(j, d) == (CHOOSE m \in Range(FieldMapping(j)) : m[1] = d)[2]

\* the source columns behind the natural key
SourceKeyColumns(j) == <<SourceOf(j, KeyColumns(j)[1]), SourceOf(j, KeyColumns(j)[2])>>

----------------------------------------------------------------------------
(* Rows *)

\* <<first key value, second key value, seed of the other columns>> of the
\* rows the source table is filled with: three natural keys, two pairs of
\* them differing in one key column only
SourceSeeds == {<<1, 1, 1>>, <<1, 2, 1>>, <<2, 1, 1>>}

\* the same for the rows that can be at the destination before the first
\* run: one equal to a source row, and one with that row's natural key and
\* other values in the other columns
DestSeeds == {<<1, 1, 1>>, <<1, 1, 2>>}

ColumnIndex(j, c) ==
    CHOOSE k \in 1..Len(FieldMapping(j)) : FieldMapping(j)[k][2] = c

\* a row of the source table restricted to the columns cols: the two key
\* columns hold k1 and k2, every other column a value of its own
SourceRow(j, k1, k2, v, cols) ==
    [c \in cols |->
        IF c = SourceKeyColumns(j)[1] THEN k1
        ELSE IF c = SourceKeyColumns(j)[2] THEN k2
        ELSE 10 * ColumnIndex(j, c) + v]

\* a row already at the destination, synced from such a source row earlier
DestRow(j, k1, k2, v, id) ==
    [d \in DestColumns(j) |->
        IF d = IdColumn(j) THEN id
        ELSE SourceRow(j, k1, k2, v, SourceColumns(j))[SourceOf(j, d)]]

\* str(uuid.uuid4()): a token no other row has
uuid4(r, k) == <<r, k>>

\* data['X'] for every column the record literal reads: KeyError when the
\* DataFrame has no such column
HasColumns(j, data) == \A m \in Range(FieldMapping(j)) : m[2] \in DOMAIN data

\* a record literal that reads the volume column for the value column
record_value_from_volume(j, data, id) ==
    [d \in DestColumns(j) |->
        IF d = IdColumn(j) THEN id
        ELSE IF d = "mkstat_total_value" THEN data["MKISTAT_TOTAL_VOLUME"]
        ELSE IF d = "trd_total_value" THEN data["TRD_TOTAL_VOLUME"]
        ELSE data[SourceOf(j, d)]]

\* the record literal of the construction loop
record(j, data, id) ==
    [d \in DestColumns(j) |->
        IF d = IdColumn(j) THEN id ELSE data[SourceOf(j, d)]]

\* a filter that also compares the generated identity token
filter_by_identity(j, rows, rec) ==
    {r \in rows : /\ r[IdColumn(j)] = rec[IdColumn(j)]
                  /\ \A k \in 1..Len(KeyColumns(j)) :
                         r[KeyColumns(j)[k]] = rec[KeyColumns(j)[k]]}

\* a filter that compares every column copied from the source
filter_by_all_columns(j, rows, rec) ==
    {r \in rows : \A d \in MappedColumns(j) : r[d] = rec[d]}

\* a filter on the first key column alone
filter_by_first_key(j, rows, rec) ==
    {r \in rows : r[KeyColumns(j)[1]] = rec[KeyColumns(j)[1]]}

\* session.query(table).filter_by(key1 = ..., key2 = ...)
filter_by(j, rows, rec) ==
    {r \in rows : \A k \in 1..Len(KeyColumns(j)) :
                      r[KeyColumns(j)[k]] = rec[KeyColumns(j)[k]]}

\* Query.first(): one row of the result, or None (the empty set)
first(rows) == IF rows = {} THEN {} ELSE {CHOOSE r \in rows : TRUE}

\* a check on a connection of its own sees the committed rows only
visible_committed_only(table, staged) == table

\* the rows a statement of the session sees: the committed table and the
\* rows the session's own transaction has inserted
visible(table, staged) == table \cup staged

\* a load that replaces the content of the table
commit_replace_table(table, staged) == staged

\* a commit that drops the rows whose natural key the table already holds
commit_skip_present(table, staged) ==
    table \cup {r \in staged :
                   \A t \in table :
                       \E k \in 1..Len(KeyColumns(job)) :
                           t[KeyColumns(job)[k]] # r[KeyColumns(job)[k]]}

\* session.commit()
commit(table, staged) == table \cup staged

\* an autocommit connection keeps every executed insert
close_session_autocommit(table, staged) == table \cup staged

\* leaving the with block by an exception: Session.close() rolls back
close_session(table, staged) == table

NaturalKey(j, r) == <<r[KeyColumns(j)[1]], r[KeyColumns(j)[2]]>>
KeysOf(j, rows) == {NaturalKey(j, r) : r \in rows}

----------------------------------------------------------------------------
(* Initial states *)

\* the source table has every expected column, or lacks one
ColumnSets(j) ==
    {SourceColumns(j),
     SourceColumns(j) \ {IF j = "mkistat" THEN "MKISTAT_TOTAL_VALUE" ELSE "TRD_TOTAL_VALUE"}}

SeqsUpTo(S, n) == UNION {[1..k -> S] : k \in 0..n}

SourceTables(j) ==
    UNION {SeqsUpTo({SourceRow(j, s[1], s[2], s[3], cols) : s \in SourceSeeds}, MaxSrc) :
              cols \in ColumnSets(j)}

SeedId(s) == (s[1] * 10 + s[2]) * 10 + s[3]

DestTables(j) ==
    {{DestRow(j, s[1], s[2], s[3], uuid4(0, SeedId(s))) : s \in S} :
        S \in SUBSET DestSeeds}

Init ==
    /\ job \in Jobs
    /\ source \in SourceTables(job)
    /\ dest \in DestTables(job)
    /\ runs = 0
    /\ pc = [p \in Procs |-> "idle"]
    /\ imds_data = [p \in Procs |-> <<>>]
    /\ insert_records = [p \in Procs |-> <<>>]
    /\ pos = [p \in Procs |-> 0]
    /\ session = [p \in Procs |-> {}]
    /\ existing_record = [p \in Procs |-> {}]
    /\ inserted_count = [p \in Procs |-> 0]
    /\ run_id = [p \in Procs |-> 0]
    /\ log = [p \in Procs |-> <<>>]
    /\ trace = [p \in Procs |-> <<>>]
    /\ destAtStart = [p \in Procs |-> dest]
    /\ history = <<>>

----------------------------------------------------------------------------
(* The script, one action per step.  A step that raises has its own       *)
(* action: control goes to the except clause of the try statement.         *)

Did(p, op, k, ok) == trace' = [trace EXCEPT ![p] = Append(@, <<op, k, ok>>)]
Goto(p, label) == pc' = [pc EXCEPT ![p] = label]
Logged(p, msg) == log' = [log EXCEPT ![p] = Append(@, msg)]

\* a loop left after its first iteration
LoopHead_stops_early(p, k) ==
    IF k <= Len(insert_records[p]) /\ k <= 1 THEN "check" ELSE "commit"

\* the for statement over insert_records: the body runs for position k, or
\* the loop is over and session.commit() is next
LoopHead(p, k) == IF k <= Len(insert_records[p]) THEN "check" ELSE "commit"

\* the scheduler starts the script as a fresh process; lines 26-50 log the
\* start time and read the environment
Start(p) ==
    /\ pc[p] \in {"idle", "end"}
    /\ runs < MaxRuns
    /\ runs' = runs + 1
    /\ run_id' = [run_id EXCEPT ![p] = runs + 1]
    /\ imds_data' = [imds_data EXCEPT ![p] = <<>>]
    /\ insert_records' = [insert_records EXCEPT ![p] = <<>>]
    /\ pos' = [pos EXCEPT ![p] = 0]
    /\ session' = [session EXCEPT ![p] = {}]
    /\ existing_record' = [existing_record EXCEPT ![p] = {}]
    /\ inserted_count' = [inserted_count EXCEPT ![p] = 0]
    /\ log' = [log EXCEPT ![p] = << <<"started">> >>]
    /\ trace' = [trace EXCEPT ![p] = <<>>]
    /\ destAtStart' = [destAtStart EXCEPT ![p] = dest]
    /\ Goto(p, "engines")
    /\ UNCHANGED <<job, source, dest, history>>

\* create_engine twice and sessionmaker
CreateEngines(p) ==
    /\ pc[p] = "engines"
    /\ Did(p, "engines", 0, TRUE)
    /\ Goto(p, "fetch")
    /\ UNCHANGED <<job, source, dest, runs, run_id, locals, log, destAtStart, history>>

CreateEnginesFails(p) ==
    /\ pc[p] = "engines"
    /\ Did(p, "engines", 0, FALSE)
    /\ Goto(p, "except")
    /\ UNCHANGED <<job, source, dest, runs, run_id, locals, log, destAtStart, history>>

\* pd.read_sql("SELECT * FROM <source table>") and the fetched-count log
Fetch(p) ==
    /\ pc[p] = "fetch"
    /\ imds_data' = [imds_data EXCEPT ![p] = source]
    /\ Logged(p, <<"fetched", Len(source)>>)
    /\ Did(p, "fetch", 0, TRUE)
    /\ Goto(p, "reflect")
    /\ UNCHANGED <<job, source, dest, runs, run_id, insert_records, pos, session,
                   existing_record, inserted_count, destAtStart, history>>

\* a fetch whose error is swallowed: the script goes on with no rows
FetchFails_swallowed(p) ==
    /\ pc[p] = "fetch"
    /\ Did(p, "fetch", 0, FALSE)
    /\ Goto(p, "reflect")
    /\ UNCHANGED <<job, source, dest, runs, run_id, locals, log, destAtStart, history>>

FetchFails(p) ==
    /\ pc[p] = "fetch"
    /\ Did(p, "fetch", 0, FALSE)
    /\ Goto(p, "except")
    /\ UNCHANGED <<job, source, dest, runs, run_id, locals, log, destAtStart, history>>

\* Table(..., autoload_with=postgresql_engine), then insert_records = []
Reflect(p) ==
    /\ pc[p] = "reflect"
    /\ insert_records' = [insert_records EXCEPT ![p] = <<>>]
    /\ pos' = [pos EXCEPT ![p] = 1]
    /\ Did(p, "reflect", 0, TRUE)
    /\ Goto(p, "map")
    /\ UNCHANGED <<job, source, dest, runs, run_id, imds_data, session,
                   existing_record, inserted_count, log, destAtStart, history>>

ReflectFails(p) ==
    /\ pc[p] = "reflect"
    /\ Did(p, "reflect", 0, FALSE)
    /\ Goto(p, "except")
    /\ UNCHANGED <<job, source, dest, runs, run_id, locals, log, destAtStart, history>>

\* one iteration of the construction loop
MapRow(p) ==
    /\ pc[p] = "map"
    /\ pos[p] <= Len(imds_data[p])
    /\ HasColumns(job, imds_data[p][pos[p]])
    /\ insert_records' = [insert_records EXCEPT ![p] =
           Append(@, record(job, imds_data[p][pos[p]], uuid4(run_id[p], pos[p])))]
    /\ pos' = [pos EXCEPT ![p] = @ + 1]
    /\ Did(p, "map", pos[p], TRUE)
    /\ UNCHANGED <<job, source, dest, runs, run_id, pc, imds_data, session,
                   existing_record, inserted_count, log, destAtStart, history>>

\* a construction loop that skips a row it cannot build
MapRowFails_skip_row(p) ==
    /\ pc[p] = "map"
    /\ pos[p] <= Len(imds_data[p])
    /\ ~HasColumns(job, imds_data[p][pos[p]])
    /\ pos' = [pos EXCEPT ![p] = @ + 1]
    /\ Did(p, "map", pos[p], FALSE)
    /\ UNCHANGED <<job, source, dest, runs, run_id, pc, imds_data, insert_records,
                   session, existing_record, inserted_count, log, destAtStart,
                   history>>

\* data['X'] raises KeyError
MapRowFails(p) ==
    /\ pc[p] = "map"
    /\ pos[p] <= Len(imds_data[p])
    /\ ~HasColumns(job, imds_data[p][pos[p]])
    /\ Did(p, "map", pos[p], FALSE)
    /\ Goto(p, "except")
    /\ UNCHANGED <<job, source, dest, runs, run_id, locals, log, destAtStart, history>>

\* the construction loop is over: the prepared-count log
LogPrepared(p) ==
    /\ pc[p] = "map"
    /\ pos[p] > Len(imds_data[p])
    /\ Logged(p, <<"prepared", Len(insert_records[p])>>)
    /\ Goto(p, "open")
    /\ UNCHANGED <<job, source, dest, runs, run_id, locals, hist>>

\* with Session() as session: (and inserted_count = 0 in imds-etl.py)
OpenSession(p) ==
    /\ pc[p] = "open"
    /\ session' = [session EXCEPT ![p] = {}]
    /\ inserted_count' = [inserted_count EXCEPT ![p] = 0]
    /\ pos' = [pos EXCEPT ![p] = 1]
    /\ Did(p, "open", 0, TRUE)
    /\ Goto(p, LoopHead(p, 1))
    /\ UNCHANGED <<job, source, dest, runs, run_id, imds_data, insert_records,
                   existing_record, log, destAtStart, history>>

\* the existence check of the current record, and the if that follows it
Check(p) ==
    /\ pc[p] = "check"
    /\ LET found == first(filter_by(job, visible(dest, session[p]),
                                    insert_records[p][pos[p]]))
       IN /\ existing_record' = [existing_record EXCEPT ![p] = found]
          /\ IF found = {}
             THEN Goto(p, "insert") /\ pos' = pos
             ELSE Goto(p, LoopHead(p, pos[p] + 1))
                  /\ pos' = [pos EXCEPT ![p] = @ + 1]
    /\ Did(p, "check", pos[p], TRUE)
    /\ UNCHANGED <<job, source, dest, runs, run_id, imds_data, insert_records,
                   session, inserted_count, log, destAtStart, history>>

\* the query raises: the with block is left, the session closed
CheckFails(p) ==
    /\ pc[p] = "check"
    /\ dest' = close_session(dest, session[p])
    /\ session' = [session EXCEPT ![p] = {}]
    /\ Did(p, "check", pos[p], FALSE)
    /\ Goto(p, "except")
    /\ UNCHANGED <<job, source, runs, run_id, imds_data, insert_records, pos,
                   existing_record, inserted_count, log, destAtStart, history>>

\* session.execute(insert_stmt), and inserted_count += 1 in imds-etl.py
Insert(p) ==
    /\ pc[p] = "insert"
    /\ session' = [session EXCEPT ![p] = @ \cup {insert_records[p][pos[p]]}]
    /\ inserted_count' = [inserted_count EXCEPT ![p] =
                             IF job = "mkistat" THEN @ + 1 ELSE @]
    /\ pos' = [pos EXCEPT ![p] = @ + 1]
    /\ Did(p, "insert", pos[p], TRUE)
    /\ Goto(p, LoopHead(p, pos[p] + 1))
    /\ UNCHANGED <<job, source, dest, runs, run_id, imds_data, insert_records,
                   existing_record, log, destAtStart, history>>

InsertFails(p) ==
    /\ pc[p] = "insert"
    /\ dest' = close_session(dest, session[p])
    /\ session' = [session EXCEPT ![p] = {}]
    /\ Did(p, "insert", pos[p], FALSE)
    /\ Goto(p, "except")
    /\ UNCHANGED <<job, source, runs, run_id, imds_data, insert_records, pos,
                   existing_record, inserted_count, log, destAtStart, history>>

\* session.commit()
Commit(p) ==
    /\ pc[p] = "commit"
    /\ dest' = commit(dest, session[p])
    /\ session' = [session EXCEPT ![p] = {}]
    /\ Did(p, "commit", 0, TRUE)
    /\ Goto(p, "report")
    /\ UNCHANGED <<job, source, runs, run_id, imds_data, insert_records, pos,
                   existing_record, inserted_count, log, destAtStart, history>>

\* a commit that raises after the rows were made durable
CommitFails_rows_kept(p) ==
    /\ pc[p] = "commit"
    /\ dest' = commit(dest, session[p])
    /\ session' = [session EXCEPT ![p] = {}]
    /\ Did(p, "commit", 0, FALSE)
    /\ Goto(p, "except")
    /\ UNCHANGED <<job, source, runs, run_id, imds_data, insert_records, pos,
                   existing_record, inserted_count, log, destAtStart, history>>

CommitFails(p) ==
    /\ pc[p] = "commit"
    /\ dest' = close_session(dest, session[p])
    /\ session' = [session EXCEPT ![p] = {}]
    /\ Did(p, "commit", 0, FALSE)
    /\ Goto(p, "except")
    /\ UNCHANGED <<job, source, runs, run_id, imds_data, insert_records, pos,
                   existing_record, inserted_count, log, destAtStart, history>>

\* the message logged after the commit
InsertedMessage(j, count, prepared) ==
    IF j = "mkistat"
    THEN IF count > 0 THEN <<"inserted", count>> ELSE <<"no_new_records">>
    ELSE <<"inserted", prepared>>

Report(p) ==
    /\ pc[p] = "report"
    /\ Logged(p, InsertedMessage(job, inserted_count[p], Len(insert_records[p])))
    /\ Goto(p, "complete")
    /\ UNCHANGED <<job, source, dest, runs, run_id, locals, hist>>

\* a handler that swallows the exception without logging it
Except_silent(p) ==
    /\ pc[p] = "except"
    /\ Goto(p, "complete")
    /\ UNCHANGED <<job, source, dest, runs, run_id, locals, log, hist>>

\* a handler that logs and raises again: the process dies in it
Except_reraise(p) ==
    /\ pc[p] = "except"
    /\ Logged(p, <<"error">>)
    /\ Goto(p, "crashed")
    /\ UNCHANGED <<job, source, dest, runs, run_id, locals, hist>>

\* except Exception as e: logger.error(...)
Except(p) ==
    /\ pc[p] = "except"
    /\ Logged(p, <<"error">>)
    /\ Goto(p, "complete")
    /\ UNCHANGED <<job, source, dest, runs, run_id, locals, hist>>

Errored(p) == \E k \in 1..Len(log[p]) : log[p][k] = <<"error">>

\* insert statements the run executed
Inserts(p) ==
    Cardinality({k \in 1..Len(trace[p]) : trace[p][k][1] = "insert" /\ trace[p][k][3]})

\* the completion-time log after the try statement; the process exits
Complete(p) ==
    /\ pc[p] = "complete"
    /\ Logged(p, <<"completed">>)
    /\ history' = Append(history, [ok |-> ~Errored(p), inserts |-> Inserts(p),
                                   before |-> destAtStart[p], after |-> dest])
    /\ Goto(p, "end")
    /\ UNCHANGED <<job, source, dest, runs, run_id, locals, trace, destAtStart>>

\* the steps of a started run
Run(p) ==
    \/ CreateEngines(p) \/ CreateEnginesFails(p)
    \/ Fetch(p) \/ FetchFails(p)
    \/ Reflect(p) \/ ReflectFails(p)
    \/ MapRow(p) \/ MapRowFails(p) \/ LogPrepared(p)
    \/ OpenSession(p)
    \/ Check(p) \/ CheckFails(p)
    \/ Insert(p) \/ InsertFails(p)
    \/ Commit(p) \/ CommitFails(p)
    \/ Report(p)
    \/ Except(p)
    \/ Complete(p)

\* runs one after the other
Next == \E p \in SeqProcs : Start(p) \/ Run(p)

Spec == Init /\ [][Next]_vars

----------------------------------------------------------------------------
(* Vocabulary of the properties *)

Started(p) == pc[p] # "idle"

\* the run has attempted operation op and it succeeded (ok) or raised (~ok)
Attempted(p, op, ok) ==
    \E k \in 1..Len(trace[p]) : trace[p][k][1] = op /\ trace[p][k][3] = ok

\* the run went through its commit
Succeeded(p) == Attempted(p, "commit", TRUE)

\* positions of insert_records whose insert statement was executed
InsertedPositions(p) ==
    {trace[p][k][2] : k \in {n \in 1..Len(trace[p]) :
                                trace[p][n][1] = "insert" /\ trace[p][n][3]}}

SourceKey(j, row) == <<row[SourceKeyColumns(j)[1]], row[SourceKeyColumns(j)[2]]>>
SourceKeys == {SourceKey(job, source[k]) : k \in 1..Len(source)}

\* the positions of the source rows of natural key key
PositionsOf(key) == {k \in 1..Len(source) : SourceKey(job, source[k]) = key}

Min(S) == CHOOSE x \in S : \A y \in S : x <= y

UniqueKeys(rows) ==
    \A r1, r2 \in rows : NaturalKey(job, r1) = NaturalKey(job, r2) => r1 = r2

----------------------------------------------------------------------------
(* C1  Idempotence: when two consecutive runs both complete successfully   *)
(* (the source is the same for both), the second executes no insert and    *)
(* leaves the destination table as the first left it.                      *)
Idempotence ==
    \A k \in 1..(Len(history) - 1) :
        (history[k].ok /\ history[k + 1].ok) =>
            /\ history[k + 1].inserts = 0
            /\ history[k + 1].after = history[k].after

\* a first run that inserted rows, followed by a successful second run
IdempotenceWitness ==
    /\ Len(history) = 2
    /\ history[1].ok /\ history[2].ok
    /\ history[1].inserts >= 2
    /\ history[1].after # history[1].before

(* C2  No partial writes on failure: when an existence check or an insert  *)
(* raises, whatever the number of rows already processed, the rows the run *)
(* staged are gone and the committed table is what it was at the start.    *)
NoPartialWrites ==
    \A p \in SeqProcs :
        (Attempted(p, "check", FALSE) \/ Attempted(p, "insert", FALSE)) =>
            /\ session[p] = {}
            /\ dest = destAtStart[p]
            /\ ~Attempted(p, "commit", TRUE)

\* the third row's check raises after two rows were inserted
NoPartialWritesWitness ==
    \E p \in SeqProcs :
        /\ pc[p] = "end"
        /\ Attempted(p, "check", FALSE)
        /\ InsertedPositions(p) = {1, 2}

(* C3  Skip-if-present: a record reaches the insert statement only if no   *)
(* visible destination row has its natural key; in a successful run the    *)
(* inserted rows are exactly the source rows whose key was neither at the  *)
(* destination nor earlier in the source; 3 rows of distinct keys give 3   *)
(* inserts into an empty table and 2 when one key is already there; the    *)
(* keys afterwards are the keys before plus the source's keys.             *)
SkipIfPresent ==
    \A p \in SeqProcs :
        /\ pc[p] = "insert" =>
               NaturalKey(job, insert_records[p][pos[p]])
                   \notin KeysOf(job, dest \cup session[p])
        /\ Succeeded(p) =>
               /\ InsertedPositions(p) =
                      {k \in 1..Len(source) :
                          /\ SourceKey(job, source[k]) \notin KeysOf(job, destAtStart[p])
                          /\ \A n \in 1..(k - 1) :
                                 SourceKey(job, source[n]) # SourceKey(job, source[k])}
               /\ KeysOf(job, dest) = KeysOf(job, destAtStart[p]) \cup SourceKeys
               /\ (Len(source) = 3 /\ Cardinality(SourceKeys) = 3) =>
                      /\ destAtStart[p] = {} =>
                             Cardinality(dest \ destAtStart[p]) = 3
                      /\ Cardinality(KeysOf(job, destAtStart[p]) \cap SourceKeys) = 1 =>
                             Cardinality(dest \ destAtStart[p]) = 2

\* three rows of distinct keys, one of the keys already at the destination
SkipIfPresentWitness ==
    \E p \in SeqProcs :
        /\ Succeeded(p)
        /\ Len(source) = 3 /\ Cardinality(SourceKeys) = 3
        /\ Cardinality(KeysOf(job, destAtStart[p]) \cap SourceKeys) = 1
        /\ Cardinality(InsertedPositions(p)) = 2

(* C4  In-run natural-key uniqueness: of the source rows sharing a natural *)
(* key that is not at the destination, a successful run inserts the first  *)
(* one and no other; a destination with one row per natural key at the     *)
(* start of a run has one row per natural key whenever the run is over.    *)
InRunUniqueness ==
    \A p \in SeqProcs :
        /\ Succeeded(p) =>
               \A key \in SourceKeys \ KeysOf(job, destAtStart[p]) :
                   /\ InsertedPositions(p) \cap PositionsOf(key) = {Min(PositionsOf(key))}
                   /\ Cardinality({r \in dest : NaturalKey(job, r) = key}) = 1
        /\ (Started(p) /\ UniqueKeys(destAtStart[p])) =>
               UniqueKeys(dest \cup session[p])

\* two source rows of one key that is not at the destination, then a commit
InRunUniquenessWitness ==
    \E p \in SeqProcs :
        /\ Succeeded(p)
        /\ \E key \in SourceKeys \ KeysOf(job, destAtStart[p]) :
               Cardinality(PositionsOf(key)) >= 2
        /\ UniqueKeys(destAtStart[p])
        /\ destAtStart[p] # {}

\* the operations of the run that touch the destination's session
SessionOps == {"open", "check", "insert", "commit"}

TouchedSession(p) ==
    \E k \in 1..Len(trace[p]) : trace[p][k][1] \in SessionOps

OnErrorPath(p) == pc[p] \in {"except", "complete", "end"}

ErrorLogged(p) == \E k \in 1..Len(log[p]) : log[p][k] = <<"error">>

(* C5  Fetch failure: when the source query raises, the run is on its way  *)
(* through the except clause to the end, the query was issued once, no row *)
(* was mapped, the session was never opened, no check, insert or commit    *)
(* was attempted, and the destination table is as it was.                  *)
FetchFailure ==
    \A p \in SeqProcs :
        Attempted(p, "fetch", FALSE) =>
            /\ OnErrorPath(p)
            /\ pc[p] \in {"complete", "end"} => ErrorLogged(p)
            /\ trace[p] = << <<"engines", 0, TRUE>>, <<"fetch", 0, FALSE>> >>
            /\ imds_data[p] = <<>> /\ insert_records[p] = <<>>
            /\ ~TouchedSession(p)
            /\ session[p] = {}
            /\ dest = destAtStart[p]

\* a run over a non-empty source whose fetch raised, at its end
FetchFailureWitness ==
    \E p \in SeqProcs :
        /\ Attempted(p, "fetch", FALSE)
        /\ pc[p] = "end"
        /\ Len(source) = 3
        /\ SourceKeys \ KeysOf(job, dest) # {}

(* C6  Mapping failure: when building a record raises, the run is on its   *)
(* way through the except clause to the end, the session was never opened, *)
(* no check, insert or commit was attempted for any row, and the           *)
(* destination table is as it was.                                         *)
MappingFailure ==
    \A p \in SeqProcs :
        Attempted(p, "map", FALSE) =>
            /\ OnErrorPath(p)
            /\ pc[p] \in {"complete", "end"} => ErrorLogged(p)
            /\ ~TouchedSession(p)
            /\ InsertedPositions(p) = {}
            /\ session[p] = {}
            /\ dest = destAtStart[p]

\* a run whose source rows lack a column, at its end
MappingFailureWitness ==
    \E p \in SeqProcs :
        /\ Attempted(p, "map", FALSE)
        /\ pc[p] = "end"
        /\ Len(imds_data[p]) = 3
        /\ \E k \in 1..Len(source) : ~HasColumns(job, source[k])

InsertedMessages(p) ==
    {k \in 1..Len(log[p]) : log[p][k][1] \in {"inserted", "no_new_records"}}

(* C7  Commit failure: when session.commit() raises, none of the rows the  *)
(* run inserted is in the destination table, which is as it was at the     *)
(* start; the error is logged and no inserted message is.                  *)
CommitFailure ==
    \A p \in SeqProcs :
        Attempted(p, "commit", FALSE) =>
            /\ OnErrorPath(p)
            /\ pc[p] \in {"complete", "end"} => ErrorLogged(p)
            /\ dest = destAtStart[p]
            /\ session[p] = {}
            /\ \A k \in InsertedPositions(p) : insert_records[p][k] \notin dest
            /\ InsertedMessages(p) = {}

\* a run that inserted rows and whose commit raised, at its end
CommitFailureWitness ==
    \E p \in SeqProcs :
        /\ Attempted(p, "commit", FALSE)
        /\ pc[p] = "end"
        /\ Cardinality(InsertedPositions(p)) >= 2

HasLog(p, kind) == \E k \in 1..Len(log[p]) : log[p][k][1] = kind
LogOf(p, kind) == {log[p][k] : k \in {n \in 1..Len(log[p]) : log[p][n][1] = kind}}

SomeStepRaised(p) == \E k \in 1..Len(trace[p]) : ~trace[p][k][3]

(* C8  (as stated) Summary counts are emitted for every run whatever its   *)
(* outcome: a finished run has logged its fetched count and its prepared   *)
(* count, and a run that ended in error has logged an inserted count of 0  *)
(* and the error.                                                          *)
SummaryAlwaysEmitted ==
    \A p \in SeqProcs :
        pc[p] = "end" =>
            /\ HasLog(p, "fetched")
            /\ HasLog(p, "prepared")
            /\ HasLog(p, "inserted") \/ HasLog(p, "no_new_records")
            /\ Errored(p) =>
                   (<<"inserted", 0>> \in LogOf(p, "inserted")
                       \/ HasLog(p, "no_new_records"))

(* C8  (amended) A finished run has logged the count of each stage it      *)
(* completed and of no other: the fetched count if and only if the fetch   *)
(* succeeded, the prepared count if and only if every fetched row was      *)
(* mapped, an inserted message if and only if the commit succeeded.  A run *)
(* in which a step raised has logged the error, no inserted message, and   *)
(* then its completion.                                                    *)
SummaryOfCompletedStages ==
    \A p \in SeqProcs :
        pc[p] = "end" =>
            /\ HasLog(p, "fetched") <=> Attempted(p, "fetch", TRUE)
            /\ LogOf(p, "fetched") \subseteq {<<"fetched", Len(source)>>}
            /\ HasLog(p, "prepared") <=>
                   (Attempted(p, "reflect", TRUE) /\ ~Attempted(p, "map", FALSE))
            /\ LogOf(p, "prepared") \subseteq {<<"prepared", Len(source)>>}
            /\ (InsertedMessages(p) # {}) <=> Succeeded(p)
            /\ SomeStepRaised(p) <=> ErrorLogged(p)
            /\ SomeStepRaised(p) =>
                   /\ InsertedMessages(p) = {}
                   /\ Len(log[p]) >= 2
                   /\ log[p][Len(log[p]) - 1] = <<"error">>
            /\ log[p][Len(log[p])] = <<"completed">>

\* a run whose insert raised after the fetched and prepared counts were
\* logged, at its end
SummaryOfCompletedStagesWitness ==
    \E p \in SeqProcs :
        /\ pc[p] = "end"
        /\ Attempted(p, "insert", FALSE)
        /\ HasLog(p, "fetched") /\ HasLog(p, "prepared")
        /\ InsertedMessages(p) = {}

----------------------------------------------------------------------------
(* C9  Termination.  The script has no loop but the two for statements and *)
(* blocks only in calls that return or raise, so a started run keeps       *)
(* taking steps.                                                           *)

\* termination does not depend on what the destination holds: the runs of
\* LiveSpec start from an empty destination table, so that the first run
\* finds its rows absent and a later one finds them present
LiveInit == Init /\ dest = {}

LiveSpec == LiveInit /\ [][Next]_vars /\ \A p \in SeqProcs : WF_vars(Run(p))

Finished(p) == pc[p] = "end" /\ log[p][Len(log[p])] = <<"completed">>

\* no operation is attempted twice for the same row
NoRetry(p) ==
    \A k1, k2 \in 1..Len(trace[p]) :
        (trace[p][k1][1] = trace[p][k2][1] /\ trace[p][k1][2] = trace[p][k2][2])
            => k1 = k2

\* a step that raised is the run's last operation and leads to the except
\* clause
FailureIsCaught(p) ==
    \A k \in 1..Len(trace[p]) :
        ~trace[p][k][3] => (k = Len(trace[p]) /\ OnErrorPath(p))

(* C9  Every started run reaches its end with the completion time logged,  *)
(* whether or not a step raised; a step that raises is the last operation  *)
(* of the run and is handled by the except clause; no operation is         *)
(* attempted a second time.                                                *)
Termination ==
    \A p \in SeqProcs :
        /\ [](NoRetry(p) /\ FailureIsCaught(p))
        /\ (Started(p) /\ pc[p] # "end") ~> Finished(p)

\* two finished runs, the first stopped by a failed check, the second by a
\* failed commit
TerminationWitness ==
    /\ Len(history) = 2
    /\ ~history[1].ok /\ ~history[2].ok
    /\ \E p \in SeqProcs :
           /\ Finished(p)
           /\ Attempted(p, "commit", FALSE)
           /\ ErrorLogged(p)

----------------------------------------------------------------------------
\* the rows the run has inserted, staged or committed
InsertedRows(p) == session[p] \cup (dest \ destAtStart[p])

(* C10  Field fidelity: every row a run has inserted was built from one of *)
(* the source rows; each of its columns other than the identity column is  *)
(* a mapped column and holds the value of the source column the job maps   *)
(* to it; the identity column holds the token generated for that row.      *)
FieldFidelity ==
    \A p \in SeqProcs :
        \A r \in InsertedRows(p) :
            \E k \in 1..Len(source) :
                /\ DOMAIN r = MappedColumns(job) \cup {IdColumn(job)}
                /\ \A m \in Range(FieldMapping(job)) : r[m[1]] = source[k][m[2]]
                /\ r[IdColumn(job)] = uuid4(run_id[p], k)
                /\ k \in InsertedPositions(p)

\* three rows committed by one run
FieldFidelityWitness ==
    \E p \in SeqProcs :
        /\ Succeeded(p)
        /\ Cardinality(dest \ destAtStart[p]) = 3

----------------------------------------------------------------------------
\* the inserted counts the run has logged ("no new records" is a count of 0)
ReportedCounts(p) ==
    {log[p][k][2] : k \in {n \in 1..Len(log[p]) : log[p][n][1] = "inserted"}}
        \cup (IF HasLog(p, "no_new_records") THEN {0} ELSE {})

(* C11  Inserted tally: a run that committed and logged its inserted       *)
(* message has reported exactly the number of insert statements it         *)
(* executed, which is the number of rows it added to the table.            *)
InsertedTally ==
    \A p \in SeqProcs :
        (Succeeded(p) /\ pc[p] \in {"complete", "end"}) =>
            /\ ReportedCounts(p) = {Inserts(p)}
            /\ Inserts(p) = Cardinality(dest \ destAtStart[p])

----------------------------------------------------------------------------
\* the operation b may directly follow the operation a of the same run
Follows(a, b) ==
    /\ a[3]
    /\ \/ a[1] = "engines" /\ b[1] = "fetch"
       \/ a[1] = "fetch" /\ b[1] = "reflect"
       \/ a[1] = "reflect" /\ b[1] = "map" /\ b[2] = 1
       \/ a[1] = "reflect" /\ b[1] = "open"
       \/ a[1] = "map" /\ b[1] = "map" /\ b[2] = a[2] + 1
       \/ a[1] = "map" /\ b[1] = "open"
       \/ a[1] = "open" /\ b[1] = "check" /\ b[2] = 1
       \/ a[1] = "open" /\ b[1] = "commit"
       \/ a[1] = "check" /\ b[1] = "insert" /\ b[2] = a[2]
       \/ a[1] \in {"check", "insert"} /\ b[1] = "check" /\ b[2] = a[2] + 1
       \/ a[1] \in {"check", "insert"} /\ b[1] = "commit"

PositionsDone(p, op) ==
    {trace[p][k][2] : k \in {n \in 1..Len(trace[p]) :
                                trace[p][n][1] = op /\ trace[p][n][3]}}

TimesAttempted(p, op) ==
    Cardinality({k \in 1..Len(trace[p]) : trace[p][k][1] = op})

(* C12  Linear step order: the operations of a run follow one another as   *)
(* engines, fetch, reflect, map 1..n, open, then check k (and insert k     *)
(* only right after check k) for k = 1..n, then commit; the fetch and the  *)
(* commit are attempted at most once and each row is checked at most once; *)
(* the session is opened only when every fetched row is mapped, the commit *)
(* is attempted only when every row has been fetched once and checked      *)
(* once; after an operation that raised nothing else is attempted.         *)
StepOrder ==
    \A p \in SeqProcs :
        /\ trace[p] # <<>> => trace[p][1][1] = "engines"
        /\ \A k \in 1..(Len(trace[p]) - 1) : Follows(trace[p][k], trace[p][k + 1])
        /\ NoRetry(p)
        /\ TimesAttempted(p, "fetch") <= 1 /\ TimesAttempted(p, "commit") <= 1
        /\ TimesAttempted(p, "open") = 1 =>
               /\ Attempted(p, "fetch", TRUE)
               /\ PositionsDone(p, "map") = 1..Len(source)
               /\ Len(insert_records[p]) = Len(source)
        /\ TimesAttempted(p, "commit") = 1 =>
               /\ TimesAttempted(p, "fetch") = 1
               /\ PositionsDone(p, "check") = 1..Len(source)
               /\ TimesAttempted(p, "check") = Len(source)
               /\ trace[p][Len(trace[p])][1] = "commit"
        /\ SomeStepRaised(p) =>
               /\ ~trace[p][Len(trace[p])][3]
               /\ OnErrorPath(p)

\* a committed run over three rows, the second found present and skipped
StepOrderWitness ==
    \E p \in SeqProcs :
        /\ Succeeded(p)
        /\ Len(source) = 3
        /\ InsertedPositions(p) = {1, 3}

----------------------------------------------------------------------------
(* C13  Two invocations at the same time.  Nothing in the script takes a   *)
(* lock or looks for another run: each process has its own session, and a  *)
(* statement sees the committed table and its own session's rows.          *)

\* the source tables of the concurrent runs, as sequences of seeds: one
\* row, two rows of different keys, two rows of one key
ConcSourceSeeds ==
    {<< <<1, 1, 1>> >>,
     << <<1, 1, 1>>, <<1, 2, 1>> >>,
     << <<1, 1, 1>>, <<1, 1, 1>> >>}

ConcSourceTables(j) ==
    {[k \in 1..Len(q) |-> SourceRow(j, q[k][1], q[k][2], q[k][3], cols)] :
        q \in ConcSourceSeeds, cols \in ColumnSets(j)}

ConcInit == Init /\ dest = {} /\ source \in ConcSourceTables(job)

ConcNext == \E p \in Procs : Start(p) \/ Run(p)

ConcSpec == ConcInit /\ [][ConcNext]_vars

\* the two rows hold the same values in every column but the identity
DifferInIdentityOnly(r1, r2) ==
    /\ r1[IdColumn(job)] # r2[IdColumn(job)]
    /\ \A d \in MappedColumns(job) : r1[d] = r2[d]

(* C13  Unprotected concurrent runs: whenever two processes have each      *)
(* executed an insert for the same natural key (each one's check found     *)
(* nothing, the other's row being uncommitted) and both have committed,    *)
(* both rows are in the destination table: two rows of one natural key     *)
(* that differ in the identity token only.                                 *)
UncoordinatedRace ==
    \A p, q \in Procs :
        (p # q /\ Succeeded(p) /\ Succeeded(q)) =>
            \A kp \in InsertedPositions(p), kq \in InsertedPositions(q) :
                NaturalKey(job, insert_records[p][kp])
                        = NaturalKey(job, insert_records[q][kq]) =>
                    /\ insert_records[p][kp] \in dest
                    /\ insert_records[q][kq] \in dest
                    /\ DifferInIdentityOnly(insert_records[p][kp], insert_records[q][kq])

\* both runs started on the empty table, both committed, and the table
\* holds two rows of one natural key
UncoordinatedRaceWitness ==
    /\ \A p \in Procs : pc[p] = "end" /\ Succeeded(p) /\ destAtStart[p] = {}
    /\ \E r1, r2 \in dest :
           /\ NaturalKey(job, r1) = NaturalKey(job, r2)
           /\ DifferInIdentityOnly(r1, r2)
    /\ ~UniqueKeys(dest)

----------------------------------------------------------------------------
\* positions whose check returned no row: the insert statement was reached
CheckedAbsent(p) ==
    {trace[p][k][2] : k \in {n \in 1..Len(trace[p]) : trace[p][n][1] = "insert"}}
        \cup (IF pc[p] = "insert" THEN {pos[p]} ELSE {})

\* positions whose check returned a row
CheckedFound(p) == PositionsDone(p, "check") \ CheckedAbsent(p)

(* C14  De-duplication by natural key only: the check of a record returns  *)
(* a row if and only if a row with the same two key values was in the      *)
(* table at the start of the run or an earlier record of the run had them; *)
(* a record whose key is in the table is never inserted, whatever its      *)
(* other columns hold; its identity token is in no row of the table.       *)
KeyOnlyDedup ==
    \A p \in SeqProcs :
        /\ \A k \in PositionsDone(p, "check") :
               k \in CheckedFound(p) <=>
                   \/ NaturalKey(job, insert_records[p][k]) \in KeysOf(job, destAtStart[p])
                   \/ \E n \in 1..(k - 1) :
                          NaturalKey(job, insert_records[p][n])
                              = NaturalKey(job, insert_records[p][k])
        /\ \A k \in InsertedPositions(p) :
               NaturalKey(job, insert_records[p][k]) \notin KeysOf(job, destAtStart[p])
        /\ \A k \in 1..Len(insert_records[p]) :
               \A r \in destAtStart[p] :
                   r[IdColumn(job)] # insert_records[p][k][IdColumn(job)]

\* a record skipped because of a row with its key, other values in the
\* other columns and another identity token
KeyOnlyDedupWitness ==
    \E p \in SeqProcs :
        /\ Succeeded(p)
        /\ \E k \in CheckedFound(p) : \E r \in destAtStart[p] :
               /\ NaturalKey(job, r) = NaturalKey(job, insert_records[p][k])
               /\ \E d \in MappedColumns(job) : r[d] # insert_records[p][k][d]
               /\ insert_records[p][k] \notin dest
        /\ InsertedPositions(p) # {}

----------------------------------------------------------------------------
(* C15  Append-only destination, read-only source: no step of a run takes  *)
(* a row out of the destination table or changes one (a row is the whole   *)
(* of its column values), whether the step succeeds or raises, and no step *)
(* changes the source table.                                               *)
AppendOnlyReadOnly ==
    [][(\A r \in dest : r \in dest') /\ source' = source]_vars

\* a committed run that added rows to a table holding a row whose natural
\* key a source row has with other values in the other columns
AppendOnlyReadOnlyWitness ==
    \E p \in SeqProcs :
        /\ Succeeded(p)
        /\ dest # destAtStart[p]
        /\ destAtStart[p] \subseteq dest
        /\ \E r \in destAtStart[p] : \E k \in 1..Len(source) :
               /\ SourceKey(job, source[k]) = NaturalKey(job, r)
               /\ \E m \in Range(FieldMapping(job)) : r[m[1]] # source[k][m[2]]

====
